---- MODULE Spec2Model ----
(***************************************************************************)
(* A model of the TokenSaleDetails component (src/unnamed/part_000): the   *)
(* amount validator, the 9-byte instruction encoder and the asynchronous   *)
(* submission routine handleInvest with its five suspension points.        *)
(*                                                                         *)
(* Numbers.  TLC's integers are 32 bits wide, while lamport values reach   *)
(* 5 * 10^12 and the encoder works modulo 2^64.  A JavaScript Number is    *)
(* therefore a record [kind, neg, mant, exp]: kind is "nan", "inf" or      *)
(* "fin"; a finite value is (-1)^neg * mant * 10^exp, mant a sequence of   *)
(* decimal digits without leading or trailing zeros (<<>> is zero).  The   *)
(* arithmetic is exact decimal arithmetic: binary rounding of IEEE doubles *)
(* is not modelled.                                                        *)
(*                                                                         *)
(* Strings typed into the amount input are sequences of one-character      *)
(* strings, so that Number(value) is an actual parser.                     *)
(***************************************************************************)
EXTENDS Integers, Sequences, FiniteSets, TLC

VARIABLES
    amount,          \* useState(''): the text of the amount input
    error,           \* useState(''): the stored validation error
    isProcessing,    \* useState(false): the processing flag
    walletAddress,   \* useUser().walletAddress ("" when no wallet is connected)
    isPresaleEnded,  \* usePresale().isPresaleEnded
    solana,          \* whether window.solana is present
    inv,             \* the handleInvest invocations, one record per slot
    encIn,           \* argument of a stand-alone createInstructionData call
    encOut,          \* its result (EncPending before the call)
    valIn,           \* arguments of a stand-alone validateAmount call
    valOut           \* its result (ValPending before the call)

vars == <<amount, error, isProcessing, walletAddress, isPresaleEnded, solana,
          inv, encIn, encOut, valIn, valOut>>

uiVars == <<amount, error, isProcessing, walletAddress, isPresaleEnded, solana, inv>>

-----------------------------------------------------------------------------
(* Decimal digit sequences (most significant digit first).                 *)

RECURSIVE Zeros(_)
Zeros(n) == IF n <= 0 THEN <<>> ELSE <<0>> \o Zeros(n - 1)

RECURSIVE StripLeading(_)
StripLeading(d) ==
    IF d = <<>> THEN <<>>
    ELSE IF Head(d) = 0 THEN StripLeading(Tail(d)) ELSE d

RECURSIVE TrailingZeros(_)
TrailingZeros(d) ==
    IF d = <<>> THEN 0
    ELSE IF d[Len(d)] = 0 THEN 1 + TrailingZeros(SubSeq(d, 1, Len(d) - 1)) ELSE 0

\* d1 < d2 for two digit sequences of the same length
RECURSIVE LexLess(_, _)
LexLess(d1, d2) ==
    IF d1 = <<>> THEN FALSE
    ELSE IF Head(d1) # Head(d2) THEN Head(d1) < Head(d2)
    ELSE LexLess(Tail(d1), Tail(d2))

\* d1 < d2 as natural numbers (no leading zeros)
NatLess(d1, d2) ==
    \/ Len(d1) < Len(d2)
    \/ Len(d1) = Len(d2) /\ LexLess(d1, d2)

\* d + 1
RECURSIVE DecInc(_)
DecInc(d) ==
    IF d = <<>> THEN <<1>>
    ELSE IF d[Len(d)] < 9 THEN SubSeq(d, 1, Len(d) - 1) \o <<d[Len(d)] + 1>>
    ELSE DecInc(SubSeq(d, 1, Len(d) - 1)) \o <<0>>

\* the quotient digits of the long division of d by 256, the division
\* starting with remainder r
RECURSIVE Quot256(_, _)
Quot256(d, r) ==
    IF d = <<>> THEN <<>>
    ELSE <<(r * 10 + Head(d)) \div 256>> \o Quot256(Tail(d), (r * 10 + Head(d)) % 256)

\* the remainder of that division
RECURSIVE Rem256(_, _)
Rem256(d, r) ==
    IF d = <<>> THEN r ELSE Rem256(Tail(d), (r * 10 + Head(d)) % 256)

\* d * 256 + c, c < 2560
RECURSIVE MulAdd256(_, _)
MulAdd256(d, c) ==
    IF d = <<>> THEN
        IF c = 0 THEN <<>> ELSE MulAdd256(<<>>, c \div 10) \o <<c % 10>>
    ELSE LET cur == d[Len(d)] * 256 + c
         IN  MulAdd256(SubSeq(d, 1, Len(d) - 1), cur \div 10) \o <<cur % 10>>

-----------------------------------------------------------------------------
(* JavaScript Numbers.                                                     *)

NaN == [kind |-> "nan", neg |-> FALSE, mant |-> <<>>, exp |-> 0]

Infinity(neg) == [kind |-> "inf", neg |-> neg, mant |-> <<>>, exp |-> 0]

\* the finite value (-1)^neg * digits * 10^exp in canonical form
Num(neg, digits, exp) ==
    LET d  == StripLeading(digits)
        tz == TrailingZeros(d)
    IN  IF d = <<>> THEN [kind |-> "fin", neg |-> neg, mant |-> <<>>, exp |-> 0]
        ELSE [kind |-> "fin", neg |-> neg,
              mant |-> SubSeq(d, 1, Len(d) - tz), exp |-> exp + tz]

IsZero(x) == x.kind = "fin" /\ x.mant = <<>>

Sgn(x) == IF x.kind = "nan" \/ IsZero(x) THEN 0 ELSE IF x.neg THEN -1 ELSE 1

\* |a| < |b| for two non-NaN, nonzero Numbers
MagLess(a, b) ==
    IF a.kind = "inf" THEN FALSE
    ELSE IF b.kind = "inf" THEN TRUE
    ELSE LET e == IF a.exp < b.exp THEN a.exp ELSE b.exp
         IN  NatLess(a.mant \o Zeros(a.exp - e), b.mant \o Zeros(b.exp - e))

\* the operator < on Numbers (false when either side is NaN)
NumLess(a, b) ==
    IF a.kind = "nan" \/ b.kind = "nan" THEN FALSE
    ELSE IF Sgn(a) # Sgn(b) THEN Sgn(a) < Sgn(b)
    ELSE IF Sgn(a) = 0 THEN FALSE
    ELSE IF Sgn(a) = 1 THEN MagLess(a, b) ELSE MagLess(b, a)

\* the operator <= on Numbers
NumLessEq(a, b) ==
    IF a.kind = "nan" \/ b.kind = "nan" THEN FALSE
    ELSE ~NumLess(b, a)

\* x * 10^k, k > 0
TimesPow10(x, k) ==
    IF x.kind # "fin" \/ IsZero(x) THEN x ELSE [x EXCEPT !.exp = x.exp + k]

\* whether a finite Number is an integer
IsInteger(x) == x.kind = "fin" /\ x.exp >= 0

\* the digits of an integer Number
IntDigits(x) == x.mant \o Zeros(x.exp)

\* Math.floor
MathFloor(x) ==
    IF x.kind # "fin" \/ x.exp >= 0 THEN x
    ELSE LET keep  == Len(x.mant) + x.exp
             trunc == IF keep > 0 THEN SubSeq(x.mant, 1, keep) ELSE <<>>
         IN  \* the dropped digits are nonzero: mant has no trailing zeros
             IF x.neg THEN Num(TRUE, DecInc(trunc), 0) ELSE Num(FALSE, trunc, 0)

-----------------------------------------------------------------------------
(* Number(value): the string-to-number conversion.                         *)

DigitChars == <<"0", "1", "2", "3", "4", "5", "6", "7", "8", "9">>

IsDigit(c) == \E i \in 1..10 : DigitChars[i] = c

DigitVal(c) == (CHOOSE i \in 1..10 : DigitChars[i] = c) - 1

IsSpace(c) == c = " "

RECURSIVE TrimLeft(_)
TrimLeft(s) ==
    IF s # <<>> /\ IsSpace(Head(s)) THEN TrimLeft(Tail(s)) ELSE s

RECURSIVE TrimRight(_)
TrimRight(s) ==
    IF s # <<>> /\ IsSpace(s[Len(s)]) THEN TrimRight(SubSeq(s, 1, Len(s) - 1)) ELSE s

\* the number of consecutive digit characters of s from position i on
RECURSIVE DigitRun(_, _)
DigitRun(s, i) ==
    IF i <= Len(s) /\ IsDigit(s[i]) THEN 1 + DigitRun(s, i + 1) ELSE 0

DigitsOf(s, i, n) == [k \in 1..n |-> DigitVal(s[i + k - 1])]

\* the value of a short digit sequence (an exponent)
RECURSIVE SmallInt(_)
SmallInt(d) ==
    IF d = <<>> THEN 0 ELSE SmallInt(SubSeq(d, 1, Len(d) - 1)) * 10 + d[Len(d)]

InfinityChars == <<"I", "n", "f", "i", "n", "i", "t", "y">>

\* an unsigned decimal literal: digits, optional fraction, optional exponent
ParseDecimal(neg, body) ==
    LET n1     == DigitRun(body, 1)
        hasDot == n1 + 1 <= Len(body) /\ body[n1 + 1] = "."
        n2     == IF hasDot THEN DigitRun(body, n1 + 2) ELSE 0
        q      == n1 + (IF hasDot THEN 1 ELSE 0) + n2 + 1
        hasExp == q <= Len(body) /\ body[q] \in {"e", "E"}
        hasSgn == hasExp /\ q + 1 <= Len(body) /\ body[q + 1] \in {"+", "-"}
        r      == q + 1 + (IF hasSgn THEN 1 ELSE 0)
        n3     == IF hasExp THEN DigitRun(body, r) ELSE 0
        last   == IF hasExp THEN r + n3 ELSE q
        ex     == IF hasExp
                  THEN (IF hasSgn /\ body[q + 1] = "-" THEN -1 ELSE 1)
                       * SmallInt(DigitsOf(body, r, n3))
                  ELSE 0
        digits == DigitsOf(body, 1, n1)
                  \o (IF hasDot THEN DigitsOf(body, n1 + 2, n2) ELSE <<>>)
    IN  IF n1 + n2 = 0 \/ (hasExp /\ n3 = 0) \/ last # Len(body) + 1
        THEN NaN
        ELSE Num(neg, digits, ex - n2)

\* Number(value) for a string of the characters 0-9 . + - e E space and
\* letters (hexadecimal, octal and binary literals are not modelled)
StrToNumber(value) ==
    LET t      == TrimRight(TrimLeft(value))
        signed == t # <<>> /\ Head(t) \in {"+", "-"}
        neg    == signed /\ Head(t) = "-"
        body   == IF signed THEN Tail(t) ELSE t
    IN  IF t = <<>> THEN Num(FALSE, <<>>, 0)
        ELSE IF body = InfinityChars THEN Infinity(neg)
        ELSE ParseDecimal(neg, body)

-----------------------------------------------------------------------------
(* createInstructionData (lines 44-56).                                    *)

\* the n low base-256 digits of a natural number, least significant first
\* (v ranges over the one value of d, which is so computed once per byte)
RECURSIVE BytesLE(_, _)
BytesLE(d, n) ==
    IF n = 0 THEN <<>>
    ELSE CHOOSE bytes \in
             { <<Rem256(v, 0)>> \o BytesLE(StripLeading(Quot256(v, 0)), n - 1) :
                   v \in {d} } : TRUE

\* two's complement negation of a little-endian byte sequence
RECURSIVE NegateLE(_, _)
NegateLE(b, carry) ==
    IF b = <<>> THEN <<>>
    ELSE LET v == (255 - Head(b)) + carry
         IN  <<v % 256>> \o NegateLE(Tail(b), v \div 256)

\* the natural number a little-endian byte sequence stands for
RECURSIVE DecodeLE(_)
DecodeLE(b) ==
    IF b = <<>> THEN <<>>
    ELSE MulAdd256(DecodeLE(Tail(b)), Head(b))

\* mutant of BigUint64LE: the bytes written big-endian
BigUint64BE(neg, digits) ==
    LET low == BytesLE(digits, 8)
        le  == IF neg THEN NegateLE(low, 1) ELSE low
    IN  [i \in 1..8 |-> le[9 - i]]

\* DataView.setBigUint64(0, n, true): the 8 little-endian bytes of n modulo
\* 2^64, n an integer given by its sign and digits
BigUint64LE(neg, digits) ==
    LET low == BytesLE(digits, 8)
    IN  IF neg THEN NegateLE(low, 1) ELSE low

\* createInstructionData(lamports): the 9-byte payload, or the RangeError
\* BigInt(lamports) throws for a Number that is not an integer
createInstructionData(lamports) ==
    IF ~IsInteger(lamports)
    THEN [ok |-> FALSE, err |-> "RangeError", data |-> <<>>]
    ELSE [ok |-> TRUE, err |-> "",
          data |-> <<0>> \o BigUint64LE(lamports.neg /\ ~IsZero(lamports),
                                        IntDigits(lamports))]

-----------------------------------------------------------------------------
(* Program constants (lines 8, 23-24).                                     *)

\* LAMPORTS_PER_SOL = 10^LAMPORTS_EXP
LAMPORTS_EXP == 9

\* MIN_INVESTMENT = 0.00000001
MIN_INVESTMENT == Num(FALSE, <<1>>, -8)

\* MAX_INVESTMENT = 5000
MAX_INVESTMENT == Num(FALSE, <<5, 0, 0, 0>>, 0)

MsgPresaleEnded == "Presale has ended"

MsgInvalid == "Please enter a valid amount"

MsgMinimum == "Minimum investment is 1e-8 SOL"

MsgMaximum == "Maximum investment is 5000 SOL"

MsgConnect == "Please connect your wallet"

MsgWalletNotFound == "Wallet not found"

MsgInsufficient == "Insufficient balance. Required: ${lamports / LAMPORTS_PER_SOL} SOL, Available: ${balance / LAMPORTS_PER_SOL} SOL"

MsgSuccess == "Investment successful!"

MsgTransactionFailed == "Transaction failed: "

MsgInvestmentFailed == "Investment failed"

-----------------------------------------------------------------------------
(* validateAmount (lines 58-82): the returned boolean and the value handed *)
(* to setError.                                                            *)

\* mutant of validateAmount: the presale rule comes after the numeric rules
validateAmountPresaleLast(value, presaleEnded) ==
    LET numAmount == StrToNumber(value)
    IN  IF numAmount.kind = "nan" \/ NumLessEq(numAmount, Num(FALSE, <<>>, 0))
        THEN [ok |-> FALSE, error |-> MsgInvalid]
        ELSE IF NumLess(numAmount, MIN_INVESTMENT)
        THEN [ok |-> FALSE, error |-> MsgMinimum]
        ELSE IF NumLess(MAX_INVESTMENT, numAmount)
        THEN [ok |-> FALSE, error |-> MsgMaximum]
        ELSE IF presaleEnded
        THEN [ok |-> FALSE, error |-> MsgPresaleEnded]
        ELSE [ok |-> TRUE, error |-> ""]

\* mutant of validateAmount: the minimum rule is missing
validateAmountNoMinimum(value, presaleEnded) ==
    LET numAmount == StrToNumber(value)
    IN  IF presaleEnded
        THEN [ok |-> FALSE, error |-> MsgPresaleEnded]
        ELSE IF numAmount.kind = "nan" \/ NumLessEq(numAmount, Num(FALSE, <<>>, 0))
        THEN [ok |-> FALSE, error |-> MsgInvalid]
        ELSE IF NumLess(MAX_INVESTMENT, numAmount)
        THEN [ok |-> FALSE, error |-> MsgMaximum]
        ELSE [ok |-> TRUE, error |-> ""]

\* mutant of validateAmount: the maximum itself is rejected
validateAmountExclusiveMaximum(value, presaleEnded) ==
    LET numAmount == StrToNumber(value)
    IN  IF presaleEnded
        THEN [ok |-> FALSE, error |-> MsgPresaleEnded]
        ELSE IF numAmount.kind = "nan" \/ NumLessEq(numAmount, Num(FALSE, <<>>, 0))
        THEN [ok |-> FALSE, error |-> MsgInvalid]
        ELSE IF NumLess(numAmount, MIN_INVESTMENT)
        THEN [ok |-> FALSE, error |-> MsgMinimum]
        ELSE IF NumLessEq(MAX_INVESTMENT, numAmount)
        THEN [ok |-> FALSE, error |-> MsgMaximum]
        ELSE [ok |-> TRUE, error |-> ""]

\* mutant of validateAmount: the maximum rule is missing
validateAmountNoMaximum(value, presaleEnded) ==
    LET numAmount == StrToNumber(value)
    IN  IF presaleEnded
        THEN [ok |-> FALSE, error |-> MsgPresaleEnded]
        ELSE IF numAmount.kind = "nan" \/ NumLessEq(numAmount, Num(FALSE, <<>>, 0))
        THEN [ok |-> FALSE, error |-> MsgInvalid]
        ELSE IF NumLess(numAmount, MIN_INVESTMENT)
        THEN [ok |-> FALSE, error |-> MsgMinimum]
        ELSE [ok |-> TRUE, error |-> ""]

validateAmount(value, presaleEnded) ==
    LET numAmount == StrToNumber(value)
    IN  IF presaleEnded
        THEN [ok |-> FALSE, error |-> MsgPresaleEnded]
        ELSE IF numAmount.kind = "nan" \/ NumLessEq(numAmount, Num(FALSE, <<>>, 0))
        THEN [ok |-> FALSE, error |-> MsgInvalid]
        ELSE IF NumLess(numAmount, MIN_INVESTMENT)
        THEN [ok |-> FALSE, error |-> MsgMinimum]
        ELSE IF NumLess(MAX_INVESTMENT, numAmount)
        THEN [ok |-> FALSE, error |-> MsgMaximum]
        ELSE [ok |-> TRUE, error |-> ""]

\* mutant of ToLamports: a positive fractional product is rounded up
ToLamportsRoundedUp(value) ==
    LET x == TimesPow10(StrToNumber(value), LAMPORTS_EXP)
        f == MathFloor(x)
    IN  IF f = x \/ f.neg THEN f ELSE Num(FALSE, DecInc(IntDigits(f)), 0)

\* Math.floor(Number(amount) * LAMPORTS_PER_SOL) (line 108)
ToLamports(value) == MathFloor(TimesPow10(StrToNumber(value), LAMPORTS_EXP))

\* mutant of InsufficientBalance: the comparison reversed
InsufficientBalanceReversed(balance, lamports) == NumLess(lamports, balance)

\* balance < lamports (line 114)
InsufficientBalance(balance, lamports) == NumLess(balance, lamports)

-----------------------------------------------------------------------------
(* Bounds and the values the environment supplies.                         *)

\* the number of handleInvest invocations that may be suspended at once
MaxInFlight == 2

\* the largest decimal exponent of the lamport values handed to a
\* stand-alone createInstructionData call
MaxEncExp == 20

Slots == 1..MaxInFlight

EmptyInput == <<>>

\* the texts the user types into the amount input
AmountInputs ==
    { EmptyInput,
      <<"0">>,
      <<"a", "b", "c">>,
      <<"-", "1">>,
      <<"I", "n", "f", "i", "n", "i", "t", "y">>,
      <<"0", ".", "0", "0", "0", "0", "0", "0", "0", "0", "1">>,
      <<"0", ".", "0", "0", "0", "0", "0", "0", "0", "1">>,
      <<"1", "e", "-", "8">>,
      <<"0", ".", "0", "0", "0", "0", "0", "0", "0", "1", "5", "5">>,
      <<"1", ".", "5">>,
      <<"0", ".", "1", "2", "3", "4", "5", "6", "7", "8", "9">>,
      <<"4", "9", "9", "9", ".", "9", "9", "9", "9", "9", "9", "9", "9", "9">>,
      <<"5", "0", "0", "0">>,
      <<"5", "0", "0", "0", ".", "0", "0", "0", "0", "0", "0", "0", "0", "1">>,
      <<"5", "0", "0", "1">> }

\* the texts handed to a stand-alone validateAmount call
ValidateInputs ==
    AmountInputs \cup
    { <<"1", "e", "-", "9">>,
      <<"1", "e", "-", "7">>,
      <<" ", "1", ".", "5", " ">>,
      <<"+", "5">>,
      <<"-", "0">>,
      <<"1", "e", "4">>,
      <<"5", "e", "3">>,
      <<".", "5">>,
      <<"5", ".">>,
      <<"1", "e">>,
      <<"-", "I", "n", "f", "i", "n", "i", "t", "y">>,
      <<"0", ".", "0">>,
      <<"0", "0", ".", "5">>,
      <<"4", "9", "9", "9">>,
      <<"1">>,
      <<"1", " ", "0">>,
      <<"-", "0", ".", "5">>,
      <<"5", "0", "0", "0", ".", "0">>,
      <<"1", "E", "3">>,
      <<"+", "I", "n", "f", "i", "n", "i", "t", "y">>,
      <<" ">>,
      <<".">>,
      <<"1", ".", "5", ".", "2">>,
      <<"5", "0", "0", "1", "e", "-", "1">>,
      <<"0", ".", "5", "e", "4">>,
      <<"1", "e", "+", "3">>,
      <<"1", "0", "0", "0", "0">>,
      <<"-", "5", "0", "0", "0">>,
      <<"e", "5">>,
      <<"1", ",", "5">>,
      <<"N", "a", "N">>,
      <<"0", ".", "0", "0", "0", "0", "0", "0", "0", "0", "9", "9", "9">>,
      <<"5", "0", "0", "0", ".", "1">> }

\* the balances getBalance may resolve with, in lamports
Balances ==
    { Num(FALSE, <<>>, 0),
      Num(FALSE, <<9>>, 0),
      Num(FALSE, <<1, 5>>, 0),
      Num(FALSE, <<1, 4, 9, 9, 9, 9, 9, 9, 9, 9>>, 0),
      Num(FALSE, <<1, 5>>, 8),
      Num(FALSE, <<4, 9, 9, 9, 9, 9, 9, 9, 9, 9, 9, 9, 8>>, 0),
      Num(FALSE, <<5>>, 12) }

\* the blockhashes getLatestBlockhash may resolve with
Blockhashes == {"H1", "H2"}

\* the inputs and resolutions of the liveness specification
LiveAmountInputs == {<<"0">>, <<"1", ".", "5">>, <<"5", "0", "0", "0">>}

LiveBalances ==
    { Num(FALSE, <<1, 4, 9, 9, 9, 9, 9, 9, 9, 9>>, 0), Num(FALSE, <<5>>, 12) }

LiveBlockhashes == {"H1"}

\* the values an awaited call may reject with
Rejections ==
    { [cls |-> "Error", message |-> "request failed"],
      [cls |-> "NonError", message |-> ""] }

\* sendRawTransaction may also reject with a SendTransactionError
SendRejections ==
    Rejections \cup {[cls |-> "SendTransactionError", message |-> "simulation failed"]}

\* the err field of the status confirmTransaction may resolve with
ConfirmStatuses == {"null", "InstructionError"}

\* the lamport values handed to a stand-alone createInstructionData call
Pow64 == Num(FALSE, <<1, 8, 4, 4, 6, 7, 4, 4, 0, 7, 3, 7, 0, 9, 5, 5, 1, 6, 1, 6>>, 0)

LamportInputs ==
    { Num(neg, <<d>>, k) : neg \in BOOLEAN, d \in 1..9, k \in 0..MaxEncExp }
    \cup { NaN, Infinity(FALSE), Infinity(TRUE), Num(FALSE, <<>>, 0), Pow64,
           Num(FALSE, <<1, 8, 4, 4, 6, 7, 4, 4, 0, 7, 3, 7, 0, 9, 5, 4, 9, 5, 6, 8>>, 0),
           Num(FALSE, <<1, 5>>, 8), Num(FALSE, <<1, 5, 5>>, -1) }

-----------------------------------------------------------------------------
(* The handleInvest invocations.  An async function runs synchronously up  *)
(* to its first await and then in one continuation per await; the state    *)
(* updates a handler or a continuation makes are committed, and the        *)
(* component rendered again, before the next event is dispatched.  The     *)
(* closure of an invocation keeps the amount and the error of the render   *)
(* in which the button was clicked.                                        *)

NoInvocation ==
    [ pc          |-> "none",    \* none, awaitBalance, awaitBlockhash, awaitSign,
                                 \* awaitSend, awaitConfirm, done
      amount      |-> EmptyInput,\* the amount of the closure
      wallet      |-> "",        \* the walletAddress of the closure
      lamports    |-> NaN,       \* const lamports (line 108)
      balance     |-> NaN,       \* const balance (line 113)
      data        |-> <<>>,      \* instruction.data (line 126)
      blockhash   |-> "",        \* const blockhash (line 129)
      txBlockhash |-> "",        \* transaction.recentBlockhash (line 134)
      signedData  |-> <<>>,      \* the payload of the transaction given to the wallet
      sentData    |-> <<>>,      \* the payload of the transaction broadcast
      confirmHash |-> "",        \* the blockhash given to confirmTransaction
      statusErr   |-> "",        \* the err of the status confirmTransaction returned
      calls       |-> <<>>,      \* the external calls made, in order
      notes       |-> <<>>,      \* the addNotification calls made, in order
      deposits    |-> <<>>,      \* the addDeposit arguments, in order
      setProc     |-> FALSE,     \* setIsProcessing(true) was executed
      outcome     |-> "",        \* noWallet, invalid, failed, success
      failedAt    |-> "",        \* the step that threw
      startAmount |-> EmptyInput,\* the amount state when the invocation began
      startProc   |-> FALSE ]    \* the processing flag when the invocation began

InFlight(r) == r.pc \notin {"none", "done"}

Free(s) == ~InFlight(inv[s])

\* the slot a new invocation takes
FreeSlot == CHOOSE s \in Slots : Free(s) /\ \A t \in Slots : Free(t) => s <= t

Note(level, message, detail) == [level |-> level, message |-> message, detail |-> detail]

\* the catch block (lines 152-158): the notification for a thrown value
CatchNote(e) ==
    IF e.cls = "SendTransactionError"
    THEN Note("error", MsgTransactionFailed, e.message)
    ELSE IF e.cls = "Error"
    THEN Note("error", e.message, "")
    ELSE Note("error", MsgInvestmentFailed, "")

\* mutant of Thrown: the catch block swallows the error
ThrownSilently(r, e, at) ==
    [r EXCEPT !.pc = "done", !.outcome = "failed", !.failedAt = at]

\* a throw inside the try block at step `at`: catch, then finally
Thrown(r, e, at) ==
    [r EXCEPT !.pc = "done", !.outcome = "failed", !.failedAt = at,
              !.notes = Append(@, CatchNote(e))]

\* mutant of Succeeded: addDeposit is given the lamports
SucceededDepositingLamports(r, st) ==
    [r EXCEPT !.pc = "done", !.outcome = "success", !.statusErr = st,
              !.notes = Append(@, Note("success", MsgSuccess, "")),
              !.deposits = Append(@, r.lamports)]

\* the end of the try block (lines 142-150), confirmTransaction having
\* resolved with a status whose err is st: addNotification, addDeposit
Succeeded(r, st) ==
    [r EXCEPT !.pc = "done", !.outcome = "success", !.statusErr = st,
              !.notes = Append(@, Note("success", MsgSuccess, "")),
              !.deposits = Append(@, StrToNumber(r.amount))]

\* mutant of AfterFinally: the flag is cleared on the success path only
AfterSuccessOnly(outcome) == outcome # "success"

\* the finally block (lines 159-161): the processing flag it leaves behind an
\* attempt that ended with `outcome`
AfterFinally(outcome) == FALSE

\* mutant of InputDisabled: the input stays enabled
InputNeverDisabled == FALSE

\* disabled={isProcessing} of the amount input (line 207)
InputDisabled == isProcessing

\* mutant of ButtonDisabled: the processing flag does not disable the button
ButtonDisabledByPresaleOnly == isPresaleEnded

\* disabled={isPresaleEnded || isProcessing} of the button (line 216)
ButtonDisabled == isPresaleEnded \/ isProcessing

-----------------------------------------------------------------------------
(* Event handlers.                                                         *)

\* handleAmountChange (lines 84-87), dispatched by the enabled amount input
handleAmountChange(value) ==
    /\ ~InputDisabled
    /\ amount' = value
    /\ error' = validateAmount(value, isPresaleEnded).error
    /\ UNCHANGED <<isProcessing, walletAddress, isPresaleEnded, solana, inv,
                   encIn, encOut, valIn, valOut>>

\* mutant of NoWallet: the wallet check is missing
NoWalletNever(address) == FALSE

\* !walletAddress (line 90)
NoWallet(address) == address = ""

\* handleInvest up to its first await (lines 89-113), as invocation s
handleInvestStart(s) ==
    LET r0 == [NoInvocation EXCEPT !.amount = amount, !.wallet = walletAddress,
                                   !.startAmount = amount,
                                   !.startProc = isProcessing]
        v  == validateAmount(amount, isPresaleEnded)
    IN  IF NoWallet(walletAddress)
        THEN /\ inv' = [inv EXCEPT ![s] =
                    [r0 EXCEPT !.pc = "done", !.outcome = "noWallet",
                               !.notes = <<Note("warning", MsgConnect, "")>>]]
             /\ UNCHANGED <<amount, error, isProcessing>>
        ELSE IF ~v.ok
        THEN \* addNotification('error', error): the error of the closure
             /\ inv' = [inv EXCEPT ![s] =
                    [r0 EXCEPT !.pc = "done", !.outcome = "invalid",
                               !.notes = <<Note("error", error, "")>>]]
             /\ error' = v.error
             /\ UNCHANGED <<amount, isProcessing>>
        ELSE IF ~solana
        THEN /\ inv' = [inv EXCEPT ![s] =
                    Thrown([r0 EXCEPT !.setProc = TRUE],
                           [cls |-> "Error", message |-> MsgWalletNotFound],
                           "wallet")]
             /\ error' = v.error
             /\ isProcessing' = AfterFinally("failed")
             /\ UNCHANGED amount
        ELSE /\ inv' = [inv EXCEPT ![s] =
                    [r0 EXCEPT !.pc = "awaitBalance", !.setProc = TRUE,
                               !.lamports = ToLamports(amount),
                               !.calls = <<"getBalance">>]]
             /\ error' = v.error
             /\ isProcessing' = TRUE
             /\ UNCHANGED amount

\* a click on the enabled button with a wallet connected (lines 214-216)
ClickInvest ==
    /\ ~ButtonDisabled
    /\ walletAddress # ""
    /\ \E s \in Slots : Free(s)
    /\ handleInvestStart(FreeSlot)
    /\ UNCHANGED <<walletAddress, isPresaleEnded, solana, encIn, encOut, valIn, valOut>>

\* a click on the enabled button without a wallet: connectWallet (line 215)
ClickConnect ==
    /\ ~ButtonDisabled
    /\ walletAddress = ""
    /\ walletAddress' = "Wallet1"
    /\ UNCHANGED <<amount, error, isProcessing, isPresaleEnded, solana, inv,
                   encIn, encOut, valIn, valOut>>

\* the wallet disconnects (walletAddress of useUser, line 36)
WalletDisconnects ==
    /\ walletAddress # ""
    /\ walletAddress' = ""
    /\ UNCHANGED <<amount, error, isProcessing, isPresaleEnded, solana, inv,
                   encIn, encOut, valIn, valOut>>

\* the presale ends (isPresaleEnded of usePresale, line 37)
PresaleEnds ==
    /\ ~isPresaleEnded
    /\ isPresaleEnded' = TRUE
    /\ UNCHANGED <<amount, error, isProcessing, walletAddress, solana, inv,
                   encIn, encOut, valIn, valOut>>

-----------------------------------------------------------------------------
(* The continuations of handleInvest.                                      *)

\* an awaited call of invocation s rejects with e at step `at`
Rejected(s, at, e) ==
    /\ inv' = [inv EXCEPT ![s] = Thrown(@, e, at)]
    /\ isProcessing' = AfterFinally("failed")
    /\ UNCHANGED <<amount, error, walletAddress, isPresaleEnded, solana,
                   encIn, encOut, valIn, valOut>>

\* getBalance resolves with b (lines 113-129)
BalanceResolved(s, b) ==
    /\ inv[s].pc = "awaitBalance"
    /\ LET r   == [inv[s] EXCEPT !.balance = b]
           enc == createInstructionData(r.lamports)
       IN  IF InsufficientBalance(b, r.lamports)
           THEN /\ inv' = [inv EXCEPT ![s] =
                       Thrown(r, [cls |-> "Error", message |-> MsgInsufficient],
                              "balance")]
                /\ isProcessing' = AfterFinally("failed")
           ELSE IF ~enc.ok
           THEN /\ inv' = [inv EXCEPT ![s] =
                       Thrown(r, [cls |-> "Error", message |-> enc.err], "encode")]
                /\ isProcessing' = AfterFinally("failed")
           ELSE /\ inv' = [inv EXCEPT ![s] =
                       [r EXCEPT !.pc = "awaitBlockhash", !.data = enc.data,
                                 !.calls = Append(@, "getLatestBlockhash")]]
                /\ UNCHANGED isProcessing
    /\ UNCHANGED <<amount, error, walletAddress, isPresaleEnded, solana,
                   encIn, encOut, valIn, valOut>>

BalanceRejected(s, e) ==
    /\ inv[s].pc = "awaitBalance"
    /\ Rejected(s, "getBalance", e)

\* getLatestBlockhash resolves with h (lines 129-136)
BlockhashResolved(s, h) ==
    /\ inv[s].pc = "awaitBlockhash"
    /\ inv' = [inv EXCEPT ![s] =
           [@ EXCEPT !.pc = "awaitSign", !.blockhash = h, !.txBlockhash = h,
                     !.signedData = inv[s].data,
                     !.calls = Append(@, "signTransaction")]]
    /\ UNCHANGED <<amount, error, isProcessing, walletAddress, isPresaleEnded,
                   solana, encIn, encOut, valIn, valOut>>

BlockhashRejected(s, e) ==
    /\ inv[s].pc = "awaitBlockhash"
    /\ Rejected(s, "getLatestBlockhash", e)

\* signTransaction resolves with the signed transaction (lines 136-140)
SignResolved(s) ==
    /\ inv[s].pc = "awaitSign"
    /\ inv' = [inv EXCEPT ![s] =
           [@ EXCEPT !.pc = "awaitSend", !.sentData = inv[s].signedData,
                     !.calls = Append(@, "sendRawTransaction")]]
    /\ UNCHANGED <<amount, error, isProcessing, walletAddress, isPresaleEnded,
                   solana, encIn, encOut, valIn, valOut>>

SignRejected(s, e) ==
    /\ inv[s].pc = "awaitSign"
    /\ Rejected(s, "signTransaction", e)

\* mutant of SendResolved: confirmTransaction is given some other blockhash
SendResolvedOtherBlockhash(s) ==
    /\ inv[s].pc = "awaitSend"
    /\ \E h \in Blockhashes \ {inv[s].blockhash} :
           inv' = [inv EXCEPT ![s] =
               [@ EXCEPT !.pc = "awaitConfirm", !.confirmHash = h,
                         !.calls = Append(@, "confirmTransaction")]]
    /\ UNCHANGED <<amount, error, isProcessing, walletAddress, isPresaleEnded,
                   solana, encIn, encOut, valIn, valOut>>

\* sendRawTransaction resolves with a signature (lines 137-146)
SendResolved(s) ==
    /\ inv[s].pc = "awaitSend"
    /\ inv' = [inv EXCEPT ![s] =
           [@ EXCEPT !.pc = "awaitConfirm", !.confirmHash = inv[s].blockhash,
                     !.calls = Append(@, "confirmTransaction")]]
    /\ UNCHANGED <<amount, error, isProcessing, walletAddress, isPresaleEnded,
                   solana, encIn, encOut, valIn, valOut>>

SendRejected(s, e) ==
    /\ inv[s].pc = "awaitSend"
    /\ Rejected(s, "sendRawTransaction", e)

\* confirmTransaction resolves with a status whose err is st (lines 142-161)
ConfirmResolved(s, st) ==
    /\ inv[s].pc = "awaitConfirm"
    /\ inv' = [inv EXCEPT ![s] = Succeeded(@, st)]
    /\ amount' = EmptyInput
    /\ isProcessing' = AfterFinally("success")
    /\ UNCHANGED <<error, walletAddress, isPresaleEnded, solana, encIn, encOut, valIn, valOut>>

ConfirmRejected(s, e) ==
    /\ inv[s].pc = "awaitConfirm"
    /\ Rejected(s, "confirmTransaction", e)

\* some awaited call of invocation s settles, getBalance and
\* getLatestBlockhash resolving with one of the given values
SettleIn(s, balances, hashes) ==
    \/ \E b \in balances : BalanceResolved(s, b)
    \/ \E e \in Rejections : BalanceRejected(s, e)
    \/ \E h \in hashes : BlockhashResolved(s, h)
    \/ \E e \in Rejections : BlockhashRejected(s, e)
    \/ SignResolved(s)
    \/ \E e \in Rejections : SignRejected(s, e)
    \/ SendResolved(s)
    \/ \E e \in SendRejections : SendRejected(s, e)
    \/ \E st \in ConfirmStatuses : ConfirmResolved(s, st)
    \/ \E e \in Rejections : ConfirmRejected(s, e)

Settle(s) == SettleIn(s, Balances, Blockhashes)

\* the same with the smaller environment of the liveness specification
LiveSettle(s) == SettleIn(s, LiveBalances, LiveBlockhashes)

-----------------------------------------------------------------------------
(* A stand-alone call of createInstructionData.                            *)

EncPending == [ok |-> FALSE, err |-> "pending", data |-> <<>>]

EncodeCall ==
    /\ encOut = EncPending
    /\ encOut' = createInstructionData(encIn)
    /\ UNCHANGED <<uiVars, encIn, valIn, valOut>>

-----------------------------------------------------------------------------
(* A stand-alone call of validateAmount.                                   *)

NoValidateCall == [value |-> EmptyInput, presaleEnded |-> FALSE]

ValPending == [ok |-> FALSE, error |-> "pending"]

ValidateCall ==
    /\ valOut = ValPending
    /\ valOut' = validateAmount(valIn.value, valIn.presaleEnded)
    /\ UNCHANGED <<uiVars, encIn, encOut, valIn>>

-----------------------------------------------------------------------------
(* Specifications.                                                         *)

InitUI ==
    /\ amount = EmptyInput
    /\ error = ""
    /\ isProcessing = FALSE
    /\ walletAddress = ""
    /\ isPresaleEnded \in BOOLEAN
    /\ solana \in BOOLEAN
    /\ inv = [s \in Slots |-> NoInvocation]

Init ==
    /\ InitUI
    /\ encIn = NaN
    /\ encOut = EncPending
    /\ valIn = NoValidateCall
    /\ valOut = ValPending

Next ==
    \/ \E value \in AmountInputs : handleAmountChange(value)
    \/ ClickInvest
    \/ ClickConnect
    \/ WalletDisconnects
    \/ PresaleEnds
    \/ \E s \in Slots : Settle(s)

\* the component under every interleaving of user events and settlements
Spec == Init /\ [][Next]_vars

NextLive ==
    \/ \E value \in LiveAmountInputs : handleAmountChange(value)
    \/ ClickInvest
    \/ ClickConnect
    \/ WalletDisconnects
    \/ PresaleEnds
    \/ \E s \in Slots : LiveSettle(s)

\* the component when every pending external call eventually resolves or
\* rejects
LiveSpec == Init /\ [][NextLive]_vars /\ \A s \in Slots : WF_vars(LiveSettle(s))

InitEncode ==
    /\ InitUI
    /\ encIn \in LamportInputs
    /\ encOut = EncPending
    /\ valIn = NoValidateCall
    /\ valOut = ValPending

NextEncode == EncodeCall

InitValidate ==
    /\ InitUI
    /\ encIn = NaN
    /\ encOut = EncPending
    /\ valIn \in [value : ValidateInputs, presaleEnded : BOOLEAN]
    /\ valOut = ValPending

NextValidate == ValidateCall

\* validateAmount applied to each of ValidateInputs, the presale ended or not
SpecValidate == InitValidate /\ [][NextValidate]_vars

\* handleInvest called while no wallet is connected; the button does not do
\* so (its onClick is connectWallet then), a direct caller may
InvokeWithoutWallet ==
    /\ walletAddress = ""
    /\ \E s \in Slots : Free(s)
    /\ handleInvestStart(FreeSlot)
    /\ UNCHANGED <<walletAddress, isPresaleEnded, solana, encIn, encOut, valIn, valOut>>

NextDirect ==
    \/ \E value \in LiveAmountInputs : handleAmountChange(value)
    \/ ClickInvest
    \/ InvokeWithoutWallet
    \/ ClickConnect
    \/ WalletDisconnects
    \/ PresaleEnds
    \/ \E s \in Slots : LiveSettle(s)

\* the component, in the smaller environment, with handleInvest also called
\* directly without a wallet
SpecDirect == Init /\ [][NextDirect]_vars

\* createInstructionData applied to each of LamportInputs
SpecEncode == InitEncode /\ [][NextEncode]_vars

-----------------------------------------------------------------------------
(* Properties.                                                             *)

Invocations == {inv[s] : s \in Slots}

NetworkCalls ==
    {"getBalance", "getLatestBlockhash", "sendRawTransaction", "confirmTransaction"}

Called(r, name) == \E i \in 1..Len(r.calls) : r.calls[i] = name

\* rules 2-4 of the amount validator, stated on the parsed value
FailsValidation(value) ==
    LET n == StrToNumber(value)
    IN  \/ n.kind = "nan"
        \/ IsZero(n)
        \/ n.neg
        \/ NumLess(n, MIN_INVESTMENT)
        \/ NumLess(MAX_INVESTMENT, n)

\* invocation s finishes in this step
Completes(s) == inv'[s] # inv[s] /\ inv'[s].pc = "done"

\* C1: whenever getBalance has returned less than the required lamports
\* floor(amount * 1e9), the attempt has ended with the insufficient-balance
\* error notification and has made no call other than getBalance: no
\* getLatestBlockhash, signTransaction, sendRawTransaction, confirmTransaction.
C1_InsufficientBalanceAborts ==
    \A r \in Invocations :
        (r.balance.kind = "fin" /\ NumLess(r.balance, r.lamports))
            => /\ r.pc = "done"
               /\ r.outcome = "failed"
               /\ r.notes = <<Note("error", MsgInsufficient, "")>>
               /\ r.calls = <<"getBalance">>
               /\ r.data = <<>>

C1_Witness ==
    \E r \in Invocations :
        /\ r.balance = Num(FALSE, <<1, 4, 9, 9, 9, 9, 9, 9, 9, 9>>, 0)
        /\ r.lamports = Num(FALSE, <<1, 5>>, 8)
        /\ r.pc = "done"

\* C2: at most one handleInvest invocation is past validation and short of
\* its finally block, and while one is, the processing flag is set (which
\* disables the submit control).
C2_OneSubmissionInFlight ==
    /\ Cardinality({s \in Slots : InFlight(inv[s])}) <= 1
    /\ (\E s \in Slots : InFlight(inv[s])) => isProcessing

C2_Witness ==
    /\ inv[1].pc = "awaitConfirm"
    /\ isProcessing
    /\ walletAddress # ""
    /\ ~isPresaleEnded

\* C3: an invocation whose amount fails validation is over at once with one
\* error notification; it makes no network call and no signTransaction
\* request, and never sets the processing flag.
C3_InvalidAmountNoCalls ==
    \A r \in Invocations :
        (r.pc # "none" /\ r.wallet # "" /\ FailsValidation(r.amount))
            => /\ r.pc = "done"
               /\ r.outcome = "invalid"
               /\ r.calls = <<>>
               /\ ~r.setProc
               /\ Len(r.notes) = 1
               /\ r.notes[1].level = "error"

C3_Witness ==
    \E r \in Invocations :
        /\ r.amount = <<"0">>
        /\ r.pc = "done"
        /\ r.notes = <<Note("error", MsgInvalid, "")>>

\* C4: under LiveSpec (every pending call settles), a set processing flag is
\* eventually cleared, and every suspended invocation eventually completes
\* with a success or an error outcome.
C4_ProcessingEventuallyCleared ==
    /\ isProcessing ~> ~isProcessing
    /\ \A s \in Slots :
           InFlight(inv[s]) ~> (inv[s].pc = "done"
                                /\ inv[s].outcome \in {"success", "failed"})

C4_Witness ==
    \E r \in Invocations, at \in {"wallet", "balance", "getBalance", "signTransaction"} :
        /\ r.pc = "done"
        /\ r.setProc
        /\ r.failedAt = at
        /\ ~isProcessing

\* C5: when the validator fails at submit time, the message given to
\* addNotification is the error the validator produced for the submitted
\* input in that run.
C5_NotifiesValidatorError ==
    \A r \in Invocations :
        (r.pc = "done" /\ r.outcome = "invalid")
            => r.notes = <<Note("error", validateAmount(r.amount, FALSE).error, "")>>

\* C6: in the step in which an invocation ends without success, addDeposit
\* has not been called and the amount input and the processing flag are what
\* they were when the invocation began.
C6_FailureLeavesStateUnchanged ==
    [][\A s \in Slots :
          (Completes(s) /\ inv'[s].outcome # "success")
              => /\ inv'[s].deposits = <<>>
                 /\ amount' = inv'[s].startAmount
                 /\ isProcessing' = inv'[s].startProc]_vars

C6_Witness ==
    \E r \in Invocations :
        /\ r.pc = "done"
        /\ r.failedAt = "confirmTransaction"
        /\ r.deposits = <<>>
        /\ amount = r.startAmount
        /\ amount # EmptyInput
        /\ isProcessing = r.startProc

\* C7: in the step in which an invocation ends, if every step through
\* confirmation succeeded it has emitted the success notification, called
\* addDeposit once with Number(amount) and reset the input to ''; otherwise
\* it has emitted no success notification, called addDeposit never and left
\* the input alone.
C7_SuccessEffects ==
    [][\A s \in Slots :
          Completes(s) =>
              LET r == inv'[s]
              IN  IF r.failedAt = "" /\ Called(r, "confirmTransaction")
                  THEN /\ r.notes = <<Note("success", MsgSuccess, "")>>
                       /\ r.deposits = <<StrToNumber(r.startAmount)>>
                       /\ amount' = EmptyInput
                  ELSE /\ \A i \in 1..Len(r.notes) : r.notes[i].level # "success"
                       /\ r.deposits = <<>>
                       /\ amount' = amount]_vars

C7_Witness ==
    \E r \in Invocations :
        /\ r.outcome = "success"
        /\ r.startAmount = <<"1", ".", "5">>
        /\ r.deposits = <<Num(FALSE, <<1, 5>>, -1)>>
        /\ amount = EmptyInput

\* C8: an invocation that has completed has emitted exactly one notification
\* (a warning without a wallet, a success on success, an error otherwise)
\* and a suspended one has emitted none yet.
C8_OneNotification ==
    \A r \in Invocations :
        /\ InFlight(r) => r.notes = <<>>
        /\ r.pc = "done" =>
              /\ Len(r.notes) = 1
              /\ r.notes[1].level =
                     (IF r.wallet = "" THEN "warning"
                      ELSE IF r.failedAt = "" /\ Called(r, "confirmTransaction")
                      THEN "success" ELSE "error")

C8_Witness ==
    \E r \in Invocations :
        /\ r.pc = "done"
        /\ r.failedAt = "sendRawTransaction"
        /\ r.notes = <<Note("error", MsgTransactionFailed, "simulation failed")>>

\* C9: every instruction payload built for a submitted amount has 9 bytes,
\* byte 0 is 0, and bytes 1..8 read as a little-endian unsigned integer are
\* floor(amount * 1e9).
C9_PayloadEncodesLamports ==
    \A r \in Invocations :
        Called(r, "getLatestBlockhash")
            => /\ Len(r.data) = 9
               /\ r.data[1] = 0
               /\ DecodeLE(SubSeq(r.data, 2, 9))
                      = IntDigits(MathFloor(TimesPow10(StrToNumber(r.amount), 9)))

C9_Witness ==
    \E r \in Invocations :
        /\ r.amount = <<"1", ".", "5">>
        /\ r.data = <<0, 0, 47, 104, 89, 0, 0, 0, 0>>

\* C10: createInstructionData fails whenever its argument is a negative
\* integer or an integer of 2^64 or more.
C10_EncodeRejectsOutOfRange ==
    (/\ encOut # EncPending
     /\ IsInteger(encIn)
     /\ (Sgn(encIn) = -1 \/ ~NumLess(encIn, Pow64)))
        => ~encOut.ok

\* the lamports of a Number: floor(x * 1e9), as digits
LamportDigits(x) == IntDigits(MathFloor(TimesPow10(x, 9)))

\* the external calls of a complete attempt, in order
CallOrder ==
    <<"getBalance", "getLatestBlockhash", "signTransaction", "sendRawTransaction",
      "confirmTransaction">>

\* C11: with the presale ended, validateAmount returns false and sets the
\* presale-ended error for every input, valid amounts included.
C11_PresaleEndedWins ==
    (valOut # ValPending /\ valIn.presaleEnded)
        => valOut = [ok |-> FALSE, error |-> MsgPresaleEnded]

C11_Witness ==
    /\ valIn = [value |-> <<"1", ".", "5">>, presaleEnded |-> TRUE]
    /\ valOut = [ok |-> FALSE, error |-> MsgPresaleEnded]

\* C12: for every input that is not a number, or whose value is below
\* MIN_INVESTMENT or above MAX_INVESTMENT, validateAmount returns false and
\* sets a non-empty error.
C12_OutOfRangeRejected ==
    LET n == StrToNumber(valIn.value)
    IN  (/\ valOut # ValPending
         /\ \/ n.kind = "nan"
            \/ NumLess(n, MIN_INVESTMENT)
            \/ NumLess(MAX_INVESTMENT, n))
            => ~valOut.ok /\ valOut.error # ""

C12_Witness ==
    /\ valIn = [value |-> <<"1", "e", "-", "9">>, presaleEnded |-> FALSE]
    /\ valOut = [ok |-> FALSE, error |-> MsgMinimum]

\* C13: with the presale running, an input whose value lies in
\* [MIN_INVESTMENT, MAX_INVESTMENT] leaves the stored error empty when typed,
\* passes validation when submitted, and the submission's lamports and
\* deposit are computed from that same value.
C13_ValidAmountAccepted ==
    [][/\ (/\ inv' = inv
           /\ amount' # amount
           /\ ~isPresaleEnded
           /\ ~FailsValidation(amount'))
          => error' = ""
       /\ \A s \in Slots :
              LET r == inv'[s]
              IN  (r.pc # "none" /\ r.wallet # "" /\ ~FailsValidation(r.amount))
                      => /\ r.outcome # "invalid"
                         /\ r.setProc
                         /\ InFlight(r) =>
                                /\ error' = ""
                                /\ r.lamports
                                       = MathFloor(TimesPow10(StrToNumber(r.amount), 9))
                         /\ r.outcome = "success"
                                => r.deposits = <<StrToNumber(r.amount)>>]_vars

C13_Witness ==
    /\ inv[1].pc = "awaitBalance"
    /\ inv[1].amount = <<"5", "0", "0", "0">>
    /\ inv[1].lamports = Num(FALSE, <<5>>, 12)
    /\ error = ""

\* C14: a handleInvest call without a wallet is over at once with the
\* wallet-required warning; it changes neither the stored error, the amount
\* nor the processing flag, and makes no external call.
C14_NoWalletFailsFast ==
    [][\A s \in Slots :
          (inv'[s] # inv[s] /\ inv[s].pc \in {"none", "done"} /\ walletAddress = "")
              => /\ inv'[s].pc = "done"
                 /\ inv'[s].notes = <<Note("warning", MsgConnect, "")>>
                 /\ inv'[s].calls = <<>>
                 /\ ~inv'[s].setProc
                 /\ inv'[s].data = <<>>
                 /\ error' = error
                 /\ amount' = amount
                 /\ isProcessing' = isProcessing]_vars

C14_Witness ==
    \E r \in Invocations :
        /\ r.pc = "done"
        /\ r.wallet = ""
        /\ r.amount = <<"1", ".", "5">>
        /\ r.notes = <<Note("warning", MsgConnect, "")>>

\* C15: the external calls of an attempt are a prefix of getBalance,
\* getLatestBlockhash, signTransaction, sendRawTransaction,
\* confirmTransaction; a call that failed is the last one made; and the
\* blockhash given to confirmTransaction is the transaction's
\* recentBlockhash.
C15_CallOrder ==
    \A r \in Invocations :
        /\ Len(r.calls) <= 5
        /\ r.calls = SubSeq(CallOrder, 1, Len(r.calls))
        /\ r.failedAt \in NetworkCalls \cup {"signTransaction"}
               => r.calls[Len(r.calls)] = r.failedAt
        /\ Called(r, "signTransaction") => r.txBlockhash = r.blockhash
        /\ Called(r, "confirmTransaction") => r.confirmHash = r.txBlockhash

C15_Witness ==
    \E r \in Invocations :
        /\ r.calls = CallOrder
        /\ r.txBlockhash = "H2"
        /\ r.confirmHash = "H2"

\* C16: with the presale running, every input that is not a finite number
\* or whose value is <= 0 gets the 'invalid amount' error.
C16_NonFiniteIsInvalid ==
    LET n == StrToNumber(valIn.value)
    IN  (/\ valOut # ValPending
         /\ ~valIn.presaleEnded
         /\ (n.kind # "fin" \/ IsZero(n) \/ n.neg))
            => valOut = [ok |-> FALSE, error |-> MsgInvalid]

\* C17: whenever signTransaction has been requested, the lamports encoded in
\* the instruction lie between 10 and 5,000,000,000,000.
C17_SignedLamportsInRange ==
    \A r \in Invocations :
        Called(r, "signTransaction")
            => LET l == DecodeLE(SubSeq(r.signedData, 2, 9))
               IN  /\ Len(r.signedData) = 9
                   /\ ~NatLess(l, <<1, 0>>)
                   /\ ~NatLess(<<5, 0, 0, 0, 0, 0, 0, 0, 0, 0, 0, 0, 0>>, l)

C17_Witness ==
    \E r \in Invocations :
        /\ r.pc = "awaitSign"
        /\ DecodeLE(SubSeq(r.signedData, 2, 9)) = <<1, 0>>

\* C18: addDeposit is called only when the status confirmTransaction
\* returned carries no error.
C18_DepositOnlyWhenConfirmed ==
    \A r \in Invocations :
        (r.deposits # <<>> \/ r.outcome = "success") => r.statusErr = "null"

\* C19: while an attempt is suspended the input is disabled and keeps the
\* submitted amount, and the amount given to addDeposit converts to the
\* lamports of the instruction that was signed and broadcast.
C19_DepositMatchesInstruction ==
    \A r \in Invocations :
        /\ InFlight(r) => isProcessing /\ amount = r.amount
        /\ r.deposits # <<>>
               => /\ Len(r.deposits) = 1
                  /\ LamportDigits(r.deposits[1]) = DecodeLE(SubSeq(r.sentData, 2, 9))
                  /\ r.sentData = r.signedData

C19_Witness ==
    \E r \in Invocations :
        /\ r.deposits = <<Num(FALSE, <<1, 5, 5>>, -10)>>
        /\ DecodeLE(SubSeq(r.sentData, 2, 9)) = <<1, 5>>

====
